---- MODULE Spec2Model ----
(***************************************************************************)
(* Mood Streak (src/src/App.tsx): a day-keyed mood history kept in React   *)
(* state and in localStorage, and the views derived from it (streaks,      *)
(* weekly trend, 30-day frequency, 12-week heatmap).                       *)
(*                                                                         *)
(* Time is modelled at the granularity the program observes it: the local  *)
(* calendar day of `new Date()`, as a day number counted from 1970-01-01.  *)
(* A date-key "YYYY-MM-DD" is the tuple <<y, m, d, j>>; j = 1 stands for   *)
(* the same text followed by one junk character (a malformed key that an   *)
(* externally written store may hold).                                     *)
(***************************************************************************)
EXTENDS Integers, Sequences, FiniteSets, TLC

VARIABLES
  now,           \* the local day of the wall clock
  storage,       \* localStorage's item under STORAGE_KEY
  phase,         \* "unmounted", "mounted", or "crashed" (a render threw)
  moodData,      \* React state: the history
  todayMood,     \* React state: today's mood option, or Null
  showReset,     \* React state: the reset dialog is open
  heatmapCells,  \* React state: the grid built by the first render
  monthLabels,   \* React state: the month labels built by the first render
  last,          \* history: the step just taken and the state it started from
  clean          \* history: the load and every write since succeeded

vars ==
  <<now, storage, phase, moodData, todayMood, showReset, heatmapCells, monthLabels, last, clean>>

(***************************************************************************)
(* Bounds of the model.                                                    *)
(***************************************************************************)
\* the wall-clock day at which the behaviours start (2024-03-01, a Friday)
FirstDay == 19783
\* how many midnights may pass in one behaviour
MaxTicks == 1
\* seeded stores hold any subset of the RecentDays days ending at FirstDay
RecentDays == 3
\* the app is opened on FirstDay or on one of the GridSpan days after it
GridSpan == 34

(***************************************************************************)
(* Constants of the program.                                               *)
(***************************************************************************)
StreakCap == 365
DAYS_IN_HEATMAP == 84
GridRows == 7
GridCols == 12
WeekDays == 7
FrequencyDays == 30

MOODS ==
  << [emoji |-> "joyful-face",  label |-> "Joyful",  color |-> "#FFD700"],
     [emoji |-> "good-face",    label |-> "Good",    color |-> "#86EFAC"],
     [emoji |-> "neutral-face", label |-> "Neutral", color |-> "#9CA3AF"],
     [emoji |-> "low-face",     label |-> "Low",     color |-> "#93C5FD"],
     [emoji |-> "sad-face",     label |-> "Sad",     color |-> "#60A5FA"],
     [emoji |-> "angry-face",   label |-> "Angry",   color |-> "#EF4444"],
     [emoji |-> "anxious-face", label |-> "Anxious", color |-> "#FB923C"],
     [emoji |-> "tired-face",   label |-> "Tired",   color |-> "#A78BFA"] >>

CatalogLabels == { MOODS[i].label : i \in 1..Len(MOODS) }

EMPTY_CELL_COLOR == "#E5E7EB"

Null == [kind |-> "null"]

(***************************************************************************)
(* Calendar: what Date does with a local day.                              *)
(***************************************************************************)
IsLeap(y) == (y % 4 = 0 /\ y % 100 # 0) \/ y % 400 = 0

DaysInYear(y) == IF IsLeap(y) THEN 366 ELSE 365

DaysInMonth(y, m) ==
  IF m = 2 THEN (IF IsLeap(y) THEN 29 ELSE 28)
  ELSE IF m \in {4, 6, 9, 11} THEN 30 ELSE 31

RECURSIVE YearStep(_, _)
\* <<year, day of that year (0-based)>> of the day n days after 1 January of y
YearStep(y, n) == IF n >= DaysInYear(y) THEN YearStep(y + 1, n - DaysInYear(y)) ELSE <<y, n>>

RECURSIVE MonthStep(_, _, _)
MonthStep(y, m, n) ==
  IF n >= DaysInMonth(y, m) THEN MonthStep(y, m + 1, n - DaysInMonth(y, m)) ELSE <<y, m, n + 1>>

\* getFullYear / getMonth + 1 / getDate of the local day numbered n
CivilOf(n) == LET yd == YearStep(1970, n) IN MonthStep(yd[1], 1, yd[2])

\* the leap years before the year y
LeapsBefore(y) == (y - 1) \div 4 - (y - 1) \div 100 + (y - 1) \div 400

\* the days from 1 January 1970 to 1 January of y (y >= 1970)
DaysBeforeYear(y) == 365 * (y - 1970) + LeapsBefore(y) - LeapsBefore(1970)

RECURSIVE DaysBeforeMonth(_, _)
DaysBeforeMonth(y, m) == IF m <= 1 THEN 0 ELSE DaysBeforeMonth(y, m - 1) + DaysInMonth(y, m - 1)

\* new Date(y, m - 1, d): the day number of a civil date
DayNumber(y, m, d) == DaysBeforeYear(y) + DaysBeforeMonth(y, m) + d - 1

\* the days of the week counted from Monday
getDayFromMonday(n) == (n + 3) % 7

\* Date.getDay(): 0 = Sunday; 1970-01-01 was a Thursday
getDay(n) == (n + 4) % 7

\* d.setDate(today.getDate() - i): calendar subtraction, normalised by Date
DaysAgo(today, i) == today - i

\* the days any key of the model may name
Horizon == StreakCap + RecentDays + 2
DayRange == (FirstDay - Horizon)..(FirstDay + GridSpan + MaxTicks)

CivilTable == [n \in DayRange |-> CivilOf(n)]

getDateKey(n) == LET c == CivilTable[n] IN <<c[1], c[2], c[3], 0>>

\* the key's text followed by a junk character
Junk(k) == <<k[1], k[2], k[3], 1>>

\* comparison of two keys as strings (fixed-width fields, so field by field;
\* a text is smaller than the same text followed by a character)
KeyLess(a, b) ==
  \/ a[1] < b[1]
  \/ a[1] = b[1] /\ a[2] < b[2]
  \/ a[1] = b[1] /\ a[2] = b[2] /\ a[3] < b[3]
  \/ a[1] = b[1] /\ a[2] = b[2] /\ a[3] = b[3] /\ a[4] < b[4]

(***************************************************************************)
(* Values.  A JavaScript value held in moodData is an object (its own      *)
(* properties as a function from key to entry), null, or a number; the     *)
(* latter two can only come out of JSON.parse of a foreign store.          *)
(***************************************************************************)
NoProps == [k \in {} |-> Null]

Obj(f) == [kind |-> "object", props |-> f]

EmptyObj == Obj(NoProps)

JsNull == [kind |-> "null", props |-> NoProps]

JsNumber == [kind |-> "number", props |-> NoProps]

\* Object.keys(data), unordered
ObjectKeys(data) == DOMAIN data.props

\* truthiness of data[key]: entries are objects, a missing property is undefined
Has(data, key) == key \in DOMAIN data.props

\* { [key]: entry }: the spread of the old history forgotten
SpreadForgotten(data, key, entry) == Obj([k \in {key} |-> entry])

\* { [key]: entry, ...data }: the old history spread last, so that it wins
SpreadReversed(data, key, entry) ==
  Obj([k \in (DOMAIN data.props) \cup {key} |-> IF k \in DOMAIN data.props THEN data.props[k] ELSE entry])

\* { ...data, [key]: entry }
Spread(data, key, entry) ==
  Obj([k \in (DOMAIN data.props) \cup {key} |-> IF k = key THEN entry ELSE data.props[k]])

getMoodByLabel(label) ==
  IF label \in CatalogLabels
  THEN MOODS[CHOOSE i \in 1..Len(MOODS) :
               MOODS[i].label = label /\ \A j \in 1..(i - 1) : MOODS[j].label # label]
  ELSE Null

(***************************************************************************)
(* localStorage under STORAGE_KEY: no item, or a text.  A text is the      *)
(* empty string, something JSON.parse rejects, the JSON texts null and a   *)
(* number, or a JSON object given by its members in textual order.         *)
(***************************************************************************)
NoItem == [kind |-> "absent", members |-> <<>>]

Text(kind) == [kind |-> kind, members |-> <<>>]

ObjectText(members) == [kind |-> "jsonObject", members |-> members]

\* every key of the model
KeyUniverse ==
  { getDateKey(n) : n \in DayRange } \cup
  { Junk(getDateKey(n)) : n \in (FirstDay - RecentDays)..(FirstDay + MaxTicks) }

\* the number of keys of the model that are smaller, as strings, than k
KeyRank == [k \in KeyUniverse |-> Cardinality({ x \in KeyUniverse : KeyLess(x, k) })]

\* every key of the model, in string order
KeyOrder == [i \in 1..Cardinality(KeyUniverse) |-> CHOOSE k \in KeyUniverse : KeyRank[k] = i - 1]

\* Object.keys(data).sort(): the default sort compares the keys as strings
SortedKeys(data) == SelectSeq(KeyOrder, LAMBDA k : k \in ObjectKeys(data))

\* JSON.stringify(data) of an object: one member per own property
Stringify(data) ==
  LET keys == SortedKeys(data)
  IN ObjectText([i \in 1..Len(keys) |-> <<keys[i], data.props[keys[i]]>>])

\* the object a member list denotes: one property per key, a repeated key
\* keeping its last value
ParseMembers(members) ==
  LET keys == { members[i][1] : i \in DOMAIN members }
      lastAt(k) == CHOOSE i \in DOMAIN members :
                     members[i][1] = k /\ \A j \in (i + 1)..Len(members) : members[j][1] # k
  IN Obj([k \in keys |-> members[lastAt(k)][2]])

\* JSON.parse(raw) throws a SyntaxError unless raw is a JSON text
ParseThrows(raw) == raw.kind \notin {"jsonObject", "jsonNull", "jsonNumber"}

\* what JSON.parse(raw) returns when it does not throw
JsonParse(raw) ==
  CASE raw.kind = "jsonObject" -> ParseMembers(raw.members)
    [] raw.kind = "jsonNull"   -> JsNull
    [] OTHER                   -> JsNumber

\* loadMoodData(): readOk = FALSE is localStorage.getItem throwing
loadMoodData(store, readOk) ==
  IF ~readOk THEN EmptyObj
  ELSE IF store.kind \in {"absent", "empty"} THEN EmptyObj
  ELSE IF ParseThrows(store) THEN EmptyObj
  ELSE JsonParse(store)

\* the history never written
SaveSkipped(store, data, writeOk) == store

\* saveMoodData(data): the store afterwards; writeOk = FALSE is setItem throwing
saveMoodData(store, data, writeOk) == IF writeOk THEN Stringify(data) ELSE store

(***************************************************************************)
(* Streaks.                                                                *)
(***************************************************************************)
RECURSIVE StreakLoop(_, _, _, _, _)
\* the for loop of computeCurrentStreak over the offsets lo..hi, in order, from
\* the loop state st = [streak, broke]; the range is halved to keep the
\* evaluation shallow
StreakLoop(data, today, lo, hi, st) ==
  IF st.broke \/ lo > hi THEN st
  ELSE IF lo = hi
       THEN IF Has(data, getDateKey(DaysAgo(today, lo)))
            THEN [st EXCEPT !.streak = @ + 1]
            ELSE [st EXCEPT !.broke = TRUE]
  ELSE LET mid == (lo + hi) \div 2
       IN StreakLoop(data, today, mid + 1, hi, StreakLoop(data, today, lo, mid, st))

\* the scan always started at today
StreakFromToday(data, today) ==
  StreakLoop(data, today, 0, StreakCap - 1, [streak |-> 0, broke |-> FALSE]).streak

computeCurrentStreak(data, today) ==
  LET startOffset == IF Has(data, getDateKey(today)) THEN 0 ELSE 1
  IN StreakLoop(data, today, startOffset, StreakCap - 1, [streak |-> 0, broke |-> FALSE]).streak

\* a JavaScript number that may be NaN
Num(v) == [nan |-> FALSE, v |-> v]

NaN == [nan |-> TRUE, v |-> 0]

\* Math.round((curr - prev) / 86_400_000) of two parsed keys; NaN when either
\* key does not parse to a date (Number of a junk field is NaN)
DiffDays(prev, curr) ==
  IF prev[4] = 1 \/ curr[4] = 1 THEN NaN
  ELSE Num(DayNumber(curr[1], curr[2], curr[3]) - DayNumber(prev[1], prev[2], prev[3]))

RECURSIVE BestLoop(_, _, _, _)
\* the for loop of computeBestStreak over the (1-based) indices lo..hi, in
\* order, from the loop state st = [current, best].  (best is at least 1: the
\* first test only makes the evaluation of st precede the descent into the
\* range, which keeps the evaluation shallow.)
BestLoop(keys, lo, hi, st) ==
  IF st.best < 1 \/ lo > hi THEN st
  ELSE IF lo = hi
       THEN IF DiffDays(keys[lo - 1], keys[lo]) = Num(1)
            THEN [current |-> st.current + 1,
                  best |-> IF st.current + 1 > st.best THEN st.current + 1 ELSE st.best]
            ELSE [st EXCEPT !.current = 1]
  ELSE LET mid == (lo + hi) \div 2
       IN BestLoop(keys, mid + 1, hi, BestLoop(keys, lo, mid, st))

Max(a, b) == IF a > b THEN a ELSE b

\* the scan of the sorted keys alone, not compared with the current streak
BestOfScan(data, today) ==
  LET keys == SortedKeys(data)
  IN IF Len(keys) = 0 THEN 0 ELSE BestLoop(keys, 2, Len(keys), [current |-> 1, best |-> 1]).best

\* the best streak capped like the current streak
BestCapped(data, today) ==
  LET keys == SortedKeys(data)
      best == IF Len(keys) = 0 THEN 0
              ELSE Max(BestLoop(keys, 2, Len(keys), [current |-> 1, best |-> 1]).best,
                       computeCurrentStreak(data, today))
  IN IF best > StreakCap THEN StreakCap ELSE best

computeBestStreak(data, today) ==
  LET keys == SortedKeys(data)
  IN IF Len(keys) = 0 THEN 0
     ELSE Max(BestLoop(keys, 2, Len(keys), [current |-> 1, best |-> 1]).best,
              computeCurrentStreak(data, today))

(***************************************************************************)
(* IEEE-754 double arithmetic, as far as the trend needs it.  The numbers  *)
(* that occur are multiples of 2^-52 below 16, so a double is held as its  *)
(* binary expansion: 56 bits, bit i weighing 2^(4 - i) (4 integer bits,    *)
(* 52 fraction bits).                                                      *)
(***************************************************************************)
DoubleFormat == [precision |-> 53, intBits |-> 4]
Precision == DoubleFormat.precision
IntBits == DoubleFormat.intBits
FixLen == IntBits + Precision - 1

RECURSIVE Pow2(_)
Pow2(k) == IF k = 0 THEN 1 ELSE 2 * Pow2(k - 1)

RECURSIVE Pow2Mod(_, _)
\* 2^k mod n
Pow2Mod(k, n) == IF k = 0 THEN 1 % n ELSE (2 * Pow2Mod(k - 1, n)) % n

\* bit i (of FixLen + 1 and more) of the exact quotient s / n, 0 < s / n < 16
QuotientBit(s, n, i) ==
  IF i <= IntBits THEN ((s \div n) \div Pow2(IntBits - i)) % 2
  ELSE (2 * ((s * Pow2Mod(i - IntBits - 1, n)) % n)) \div n

\* s * 2^(i - 4) is a multiple of n: the quotient has no bits after bit i
QuotientEndsAt(s, n, i) ==
  IF i < IntBits THEN (s % n = 0) /\ ((s \div n) % Pow2(IntBits - i) = 0)
  ELSE (s * Pow2Mod(i - IntBits, n)) % n = 0

\* index of the leading 1 of a non-zero expansion
Leading(bits) == CHOOSE i \in DOMAIN bits : bits[i] = 1 /\ \A j \in 1..(i - 1) : bits[j] = 0

\* bits + one unit at position k (k <= FixLen, no overflow past bit 1)
AddUnit(bits, k) ==
  LET z == CHOOSE j \in 1..k : bits[j] = 0 /\ \A h \in (j + 1)..k : bits[h] = 1
  IN [i \in DOMAIN bits |-> IF i < z THEN bits[i] ELSE IF i = z THEN 1 ELSE IF i <= k THEN 0 ELSE bits[i]]

\* bits - one unit at position k (the value is at least one unit)
SubUnit(bits, k) ==
  LET z == CHOOSE j \in 1..k : bits[j] = 1 /\ \A h \in (j + 1)..k : bits[h] = 0
  IN [i \in DOMAIN bits |-> IF i < z THEN bits[i] ELSE IF i = z THEN 0 ELSE IF i <= k THEN 1 ELSE bits[i]]

\* round to nearest, ties to even, at Precision significant bits: `bits` is an
\* expansion of FixLen + 1 bits, `sticky` tells that the exact value has
\* further non-zero bits after them
RoundDouble(bits, sticky) ==
  LET lead == Leading(bits)
      lastKept == lead + Precision - 1
      kept == [i \in 1..FixLen |-> IF i <= lastKept THEN bits[i] ELSE 0]
      guard == bits[lastKept + 1] = 1
      rest == sticky \/ \E i \in (lastKept + 2)..(FixLen + 1) : bits[i] = 1
      up == guard /\ (rest \/ bits[lastKept] = 1)
  IN IF up THEN AddUnit(kept, lastKept) ELSE kept

\* the double s / n for integers with 1 <= s / n <= 8
DivDouble(s, n) ==
  RoundDouble([i \in 1..(FixLen + 1) |-> QuotientBit(s, n, i)], ~QuotientEndsAt(s, n, FixLen + 1))

HalfAt == IntBits + 1

\* x + 0.5 and x - 0.5 in double arithmetic (x >= 1)
PlusHalf(x) == RoundDouble(AddUnit(x, HalfAt) \o <<0>>, FALSE)

MinusHalf(x) == SubUnit(x, HalfAt)

\* a > b for two doubles
DoubleGreater(a, b) == \E i \in 1..FixLen : a[i] > b[i] /\ \A j \in 1..(i - 1) : a[j] = b[j]

(***************************************************************************)
(* Weekly trend.                                                           *)
(***************************************************************************)
POSITIVITY ==
  [l \in CatalogLabels |->
     CASE l = "Joyful" -> 8 [] l = "Good" -> 7 [] l = "Neutral" -> 5 [] l = "Low" -> 4
       [] l = "Tired" -> 4 [] l = "Anxious" -> 3 [] l = "Sad" -> 2 [] OTHER -> 1]

\* property names every object literal inherits from Object.prototype: an
\* object indexed by one of them yields the inherited function, not undefined
InheritedNames == {"constructor"}

RECURSIVE WeekLoop(_, _, _, _)
\* the for loop of getWeekEntries over the offsets i..hi
WeekLoop(data, today, i, hi) ==
  IF i > hi THEN <<>>
  ELSE LET key == getDateKey(DaysAgo(today, i))
       IN (IF Has(data, key) THEN <<data.props[key]>> ELSE <<>>) \o WeekLoop(data, today, i + 1, hi)

\* the loop run once too often (i <= startDaysAgo + 7)
WeekOfEightDays(data, today, startDaysAgo) ==
  WeekLoop(data, today, startDaysAgo, startDaysAgo + WeekDays)

getWeekEntries(data, today, startDaysAgo) ==
  WeekLoop(data, today, startDaysAgo, startDaysAgo + WeekDays - 1)

\* the own properties of counts in the order of Object.entries: the labels in
\* the order of their first occurrence
RECURSIVE CountedLabels(_, _)
CountedLabels(entries, seen) ==
  IF entries = <<>> THEN seen
  ELSE CountedLabels(Tail(entries),
                     IF \E i \in DOMAIN seen : seen[i] = Head(entries).label
                     THEN seen ELSE Append(seen, Head(entries).label))

\* counts[label] after the first loop of getMostFrequentLabel: for a name that
\* counts inherits, counts[label] || 0 is the inherited function, and adding 1
\* to it gives a string that is no number
LabelCount(entries, label) ==
  IF label \in InheritedNames THEN NaN
  ELSE Num(Cardinality({ i \in DOMAIN entries : entries[i].label = label }))

RECURSIVE BestLabelLoop(_, _, _, _)
\* the second loop of getMostFrequentLabel; a comparison with NaN is false
BestLabelLoop(entries, labels, best, bestCount) ==
  IF labels = <<>> THEN best
  ELSE LET count == LabelCount(entries, Head(labels))
       IN IF ~count.nan /\ count.v > bestCount
          THEN BestLabelLoop(entries, Tail(labels), Head(labels), count.v)
          ELSE BestLabelLoop(entries, Tail(labels), best, bestCount)

\* getMostFrequentLabel(entries): a label, or null ([none |-> TRUE])
getMostFrequentLabel(entries) ==
  IF Len(entries) = 0 THEN [none |-> TRUE, label |-> ""]
  ELSE LET best == BestLabelLoop(entries, CountedLabels(entries, <<>>), "", 0)
       IN IF best = "" THEN [none |-> TRUE, label |-> ""] ELSE [none |-> FALSE, label |-> best]

\* POSITIVITY[e.label] ?? 5 when it is a number
Score(label) == IF label \in CatalogLabels THEN POSITIVITY[label] ELSE 5

RECURSIVE SumScores(_)
SumScores(entries) ==
  IF entries = <<>> THEN 0 ELSE Score(Head(entries).label) + SumScores(Tail(entries))

ZeroDouble == [i \in 1..FixLen |-> 0]

\* avgPositivity(entries): 0 for no entries; adding an inherited function to
\* the sum turns it into a string, and the quotient into NaN
avgPositivity(entries) ==
  IF Len(entries) = 0 THEN [nan |-> FALSE, bits |-> ZeroDouble]
  ELSE IF \E i \in DOMAIN entries : entries[i].label \in InheritedNames
       THEN [nan |-> TRUE, bits |-> ZeroDouble]
       ELSE [nan |-> FALSE, bits |-> DivDouble(SumScores(entries), Len(entries))]

\* the trend determination of App
TrendOf(currentWeekEntries, prevWeekEntries) ==
  LET currentAvg == avgPositivity(currentWeekEntries)
      prevAvg == avgPositivity(prevWeekEntries)
  IN IF Len(currentWeekEntries) = 0 /\ Len(prevWeekEntries) = 0 THEN "no-data"
     ELSE IF Len(currentWeekEntries) = 0 THEN "nothing-this-week"
     ELSE IF Len(prevWeekEntries) = 0 THEN "insufficient-history"
     ELSE IF ~currentAvg.nan /\ ~prevAvg.nan
             /\ DoubleGreater(currentAvg.bits, PlusHalf(prevAvg.bits)) THEN "upward"
     ELSE IF ~currentAvg.nan /\ ~prevAvg.nan
             /\ DoubleGreater(MinusHalf(prevAvg.bits), currentAvg.bits) THEN "downward"
     ELSE "steady"

Trend(data, today) == TrendOf(getWeekEntries(data, today, 0), getWeekEntries(data, today, 7))

(***************************************************************************)
(* 30-day frequency.                                                       *)
(***************************************************************************)
\* the loop run once too often (i <= 30)
CountIn31(data, today, label) ==
  Cardinality({ i \in 0..FrequencyDays :
                  /\ Has(data, getDateKey(DaysAgo(today, i)))
                  /\ data.props[getDateKey(DaysAgo(today, i))].label = label })

\* counts[label] after the loop of getFrequencyIn30Days, for a catalog label
CountIn30(data, today, label) ==
  Cardinality({ i \in 0..(FrequencyDays - 1) :
                  /\ Has(data, getDateKey(DaysAgo(today, i)))
                  /\ data.props[getDateKey(DaysAgo(today, i))].label = label })

RECURSIVE InsertByCount(_, _)
\* x put into a list ordered by count descending, after the items it does not
\* precede: inserting the items in their order is a stable sort
InsertByCount(sorted, x) ==
  IF sorted = <<>> THEN <<x>>
  ELSE IF x.count > Head(sorted).count THEN <<x>> \o sorted
  ELSE <<Head(sorted)>> \o InsertByCount(Tail(sorted), x)

RECURSIVE StableSort(_, _)
StableSort(items, sorted) ==
  IF items = <<>> THEN sorted ELSE StableSort(Tail(items), InsertByCount(sorted, Head(items)))

getFrequencyIn30Days(data, today) ==
  LET mapped == [i \in 1..Len(MOODS) |-> [mood |-> MOODS[i], count |-> CountIn30(data, today, MOODS[i].label)]]
      filtered == SelectSeq(mapped, LAMBDA m : m.count > 0)
  IN StableSort(filtered, <<>>)

(***************************************************************************)
(* Bar widths of the frequency chart: Math.max((count / maxFreq) * 100, 10)*)
(* in double arithmetic.  The numbers that occur lie between 2^-6 and 128  *)
(* and have 53 significant bits, so a double is held as a binary expansion *)
(* with 8 integer bits and 58 fraction bits, bit k weighing 2^(8 - k).     *)
(***************************************************************************)
WideFormat == [intBits |-> 8, fracBits |-> 58]
WideInt == WideFormat.intBits
WideLen == WideFormat.intBits + WideFormat.fracBits

\* bit k of the exact quotient c / m
RatioBit(c, m, k) ==
  IF k <= WideInt THEN ((c \div m) \div Pow2(WideInt - k)) % 2
  ELSE (2 * ((c * Pow2Mod(k - WideInt - 1, m)) % m)) \div m

\* the exact quotient c / m has non-zero bits after bit k (k >= WideInt)
RatioGoesOn(c, m, k) == (c * Pow2Mod(k - WideInt, m)) % m # 0

\* round an expansion to nearest, ties to even, at Precision significant bits;
\* `sticky` tells that the exact value has further non-zero bits.  (Appending
\* the empty sequence makes a function a sequence; it changes no value.)
RoundWide(bits, sticky) ==
  LET len == Len(bits)
      lastKept == Leading(bits) + Precision - 1
      kept == [i \in 1..WideLen |-> IF i <= lastKept /\ i <= len THEN bits[i] ELSE 0]
      guard == lastKept + 1 <= len /\ bits[lastKept + 1] = 1
      rest == sticky \/ \E i \in (lastKept + 2)..len : bits[i] = 1
      up == guard /\ (rest \/ bits[lastKept] = 1)
  IN (IF up THEN AddUnit(kept \o <<>>, lastKept) ELSE kept) \o <<>>

\* the double count / maxFreq, 0 < count <= maxFreq
DivWide(c, m) ==
  RoundWide([k \in 1..(WideLen + 1) |-> RatioBit(c, m, k)] \o <<>>, RatioGoesOn(c, m, WideLen + 1))

\* the expansion of a small integer
WideOf(n) ==
  [k \in 1..WideLen |-> IF k <= WideInt THEN (n \div Pow2(WideInt - k)) % 2 ELSE 0] \o <<>>

\* a * 2^s (no bit is lost)
ShiftLeft(a, s) == [k \in 1..WideLen |-> IF k + s <= WideLen THEN a[k + s] ELSE 0] \o <<>>

\* the carry into bit k of a + b: some bit after k generates one and every bit
\* between passes it on
CarryInto(a, b, k) ==
  \E j \in (k + 1)..WideLen :
    /\ a[j] + b[j] = 2
    /\ \A h \in (k + 1)..(j - 1) : a[h] + b[h] = 1

\* a + b (the sum stays below 256)
WideAdd(a, b) ==
  [k \in 1..WideLen |-> (a[k] + b[k] + (IF CarryInto(a, b, k) THEN 1 ELSE 0)) % 2] \o <<>>

\* the double x * 100: the exact product 64 x + 32 x + 4 x, rounded
TimesHundred(x) ==
  RoundWide(WideAdd(WideAdd(ShiftLeft(x, 6), ShiftLeft(x, 5)), ShiftLeft(x, 2)), FALSE)

\* a > b for two expansions
WideGreater(a, b) == \E i \in 1..WideLen : a[i] > b[i] /\ \A j \in 1..(i - 1) : a[j] = b[j]

MinBarWidth == WideOf(10)

RECURSIVE MaxCount(_, _)
\* frequency30.reduce((max, m) => Math.max(max, m.count), max)
MaxCount(freq, max) ==
  IF freq = <<>> THEN max ELSE MaxCount(Tail(freq), Max(max, Head(freq).count))

maxFreq(freq) == MaxCount(freq, 1)

\* the floor forgotten
BarWidthUnfloored(count, max) == TimesHundred(DivWide(count, max))

\* Math.max((count / maxFreq) * 100, 10); the style's text is this number
\* followed by %
BarWidth(count, max) ==
  LET w == TimesHundred(DivWide(count, max))
  IN IF WideGreater(w, MinBarWidth) THEN w ELSE MinBarWidth

\* the widths of the bars, in the order of the list
BarWidths(freq) == [i \in DOMAIN freq |-> BarWidth(freq[i].count, maxFreq(freq))] \o <<>>

(***************************************************************************)
(* Heatmap grid.                                                           *)
(***************************************************************************)
NoCell == [dateKey |-> <<>>, col |-> -1, row |-> -1]

EmptyGrid == [rc \in (0..(GridRows - 1)) \X (0..(GridCols - 1)) |-> NoCell]

RECURSIVE HeatmapLoop(_, _, _, _)
\* the for loop of buildHeatmapCells over the offsets lo..hi, in order.  (The
\* grid always has its 7 x 12 positions: the first test only makes the
\* evaluation of grid precede the descent into the range.)
HeatmapLoop(today, lo, hi, grid) ==
  IF DOMAIN grid = {} \/ lo > hi THEN grid
  ELSE IF lo = hi
       THEN LET pos == getDay(today) + 77 - lo
                col == pos \div 7
                row == pos % 7
            IN IF pos < 0 THEN grid
               ELSE IF col >= 0 /\ col < GridCols /\ row >= 0 /\ row < GridRows
                    THEN [grid EXCEPT ![<<row, col>>] =
                            [dateKey |-> getDateKey(DaysAgo(today, lo)), col |-> col, row |-> row]]
                    ELSE grid
  ELSE LET mid == (lo + hi) \div 2
       IN HeatmapLoop(today, mid + 1, hi, HeatmapLoop(today, lo, mid, grid))

\* the loop stopped a week early
HeatmapOfElevenWeeks(today) == HeatmapLoop(today, 0, DAYS_IN_HEATMAP - 8, EmptyGrid)

\* the grid anchored a day late
HeatmapOfTomorrow(today) == HeatmapLoop(today + 1, 0, DAYS_IN_HEATMAP - 1, EmptyGrid)

buildHeatmapCells(today) == HeatmapLoop(today, 0, DAYS_IN_HEATMAP - 1, EmptyGrid)

\* d.toLocaleDateString('en-US', { month: 'short' }), by d.getMonth() + 1
MonthNames ==
  <<"Jan", "Feb", "Mar", "Apr", "May", "Jun", "Jul", "Aug", "Sep", "Oct", "Nov", "Dec">>

\* d.getMonth() of the day n
getMonth(n) == CivilTable[n][2] - 1

\* the rows of a column that the inner loop of getMonthLabels does not skip
WindowRows(today, col) ==
  { row \in 0..(GridRows - 1) :
      LET daysAgo == getDay(today) + 77 - (col * 7 + row)
      IN ~(daysAgo < 0 \/ daysAgo >= DAYS_IN_HEATMAP) }

RECURSIVE MonthLoop(_, _, _, _)
\* the outer loop of getMonthLabels from column col on
MonthLoop(today, col, lastMonth, labels) ==
  IF col >= GridCols THEN labels
  ELSE IF WindowRows(today, col) = {} THEN MonthLoop(today, col + 1, lastMonth, labels)
  ELSE LET row == CHOOSE r \in WindowRows(today, col) : \A q \in WindowRows(today, col) : r <= q
           daysAgo == getDay(today) + 77 - (col * 7 + row)
           month == getMonth(DaysAgo(today, daysAgo))
       IN IF month # lastMonth
          THEN MonthLoop(today, col + 1, month,
                         Append(labels, [label |-> MonthNames[month + 1], col |-> col]))
          ELSE MonthLoop(today, col + 1, lastMonth, labels)

\* the first column passed over
MonthLabelsFromSecond(today) == MonthLoop(today, 1, -1, <<>>)

getMonthLabels(today) == MonthLoop(today, 0, -1, <<>>)

(***************************************************************************)
(* Stores written from outside the app (the end-to-end tests seed the      *)
(* store with JSON.stringify of a day-keyed object and reload).            *)
(***************************************************************************)
\* a record as handleMoodSelect writes it
MoodEntry(mood, instant) ==
  [emoji |-> mood.emoji, label |-> mood.label, color |-> mood.color, timestamp |-> instant]

\* the seeded label of a day: the catalog moods in turn
SeedMood(n) == MOODS[(n % Len(MOODS)) + 1]

\* an object holding a record for each day of `days` and, under a malformed
\* key, for each day of `junk`
SeedObject(days, junk) ==
  Obj([k \in { getDateKey(n) : n \in days } \cup { Junk(getDateKey(n)) : n \in junk } |->
         MoodEntry(SeedMood(DayNumber(k[1], k[2], k[3])), DayNumber(k[1], k[2], k[3]))])

\* offsets lo..hi before FirstDay, as days
Back(lo, hi) == { FirstDay - i : i \in lo..hi }

RecentSets == SUBSET Back(0, RecentDays - 1)

\* a run of consecutive days reaching back from yesterday or from today, about
\* as long as the streak scan
LongSets ==
  { Back(s, s + len - 1) : s \in {0, 1}, len \in (StreakCap - 2)..(StreakCap + 1) }

SeedObjects ==
  { SeedObject(days, junk) : days \in RecentSets, junk \in {{}, {FirstDay - 1}} }

SeedStores ==
  { Stringify(o) : o \in SeedObjects }
  \cup { NoItem, Text("empty"), Text("garbage"), Text("jsonNull"), Text("jsonNumber") }

LongStores == { Stringify(SeedObject(days, {})) : days \in LongSets }

\* histories for the best streak: a run longer than the cap that ends two days
\* ago, the same behind a shorter and more recent run, and two recent days
BestSets ==
  { Back(2, StreakCap + 2), Back(1, 2) \cup Back(4, StreakCap + 4), Back(0, 1) }

BestStores == { Stringify(SeedObject(days, {})) : days \in BestSets }

\* histories for the week windows: any of the days at the edges of the two
\* windows, and the day just past them
WeekEdges == {6, 7, 13, 14}

WeekStores ==
  { Stringify(SeedObject({ FirstDay - i : i \in edges }, {})) : edges \in SUBSET WeekEdges }

\* a seeded record with any label: a label outside the catalog comes with its
\* own emoji and colour
LabelEntry(label, instant) ==
  IF label \in CatalogLabels THEN MoodEntry(getMoodByLabel(label), instant)
  ELSE [emoji |-> "other-face", label |-> label, color |-> "#123456", timestamp |-> instant]

\* records for the offsets lo..hi before FirstDay: `first` at lo, `rest` after
Block(lo, hi, first, rest) ==
  [k \in { getDateKey(n) : n \in Back(lo, hi) } |->
     LabelEntry(IF k = getDateKey(FirstDay - lo) THEN first ELSE rest, DayNumber(k[1], k[2], k[3]))]

\* the labels of a seeded week: the most recent entry, then the others
WeekLabels ==
  { <<"Angry", "Anxious">>, <<"Angry", "Sad">>, <<"Joyful", "Joyful">>, <<"Sad", "Sad">>,
    <<"Unlisted", "Low">>, <<"constructor", "Sad">> }

WeekSizes == {0, 1, 3, 6}

\* a week of n records from offset `start` on
WeekBlocks(start) ==
  { Block(start, start + n - 1, xy[1], xy[2]) : n \in WeekSizes, xy \in WeekLabels }

\* today not logged yet, records in the six days before it and in the week before that
TrendStores == { Stringify(Obj(cur @@ prev)) : cur \in WeekBlocks(1), prev \in WeekBlocks(7) }

\* the labels of the two seeded runs
FrequencyLabels ==
  { <<"Tired", "Joyful">>, <<"Joyful", "Tired">>, <<"Tired", "Unlisted">>,
    <<"constructor", "Neutral">>, <<"Neutral", "Neutral">> }

RunLengths == {0, 2}

\* two runs of equal labels from yesterday back, and possibly a record of the
\* first label at the far edge of the 30-day window or just past it
FrequencyStores ==
  { Stringify(Obj(Block(1, a, xy[1], xy[1]) @@ Block(a + 1, a + b, xy[2], xy[2]) @@ edge)) :
      a \in 1..2, b \in RunLengths, xy \in FrequencyLabels,
      edge \in {NoProps, Block(FrequencyDays - 1, FrequencyDays - 1, "Tired", "Tired"),
                Block(FrequencyDays, FrequencyDays, "Tired", "Tired")} }

\* the lengths of the two seeded runs of the bar chart
BarRuns == {<<1, 0>>, <<10, 1>>, <<10, 3>>, <<3, 10>>, <<11, 1>>, <<27, 3>>}

\* a run of Good from yesterday back and a run of Tired before it
BarStores ==
  { Stringify(Obj(Block(1, ab[1], "Good", "Good") @@ Block(ab[1] + 1, ab[1] + ab[2], "Tired", "Tired"))) :
      ab \in BarRuns } \cup {NoItem}

(***************************************************************************)
(* The app.                                                                *)
(***************************************************************************)
\* the moods the model's user picks (indices into MOODS)
LogMoods == {1, 5}

Step(op, mood, ok, ok2) ==
  [op |-> op, mood |-> mood, ok |-> ok, ok2 |-> ok2, today |-> now,
   before |-> moodData, stored |-> storage]

\* the effect that follows every change of moodData
SyncTodayMood(data, today) ==
  IF Has(data, getDateKey(today)) THEN getMoodByLabel(data.props[getDateKey(today)].label) ELSE Null

\* before the first render, on one of `days` with one of `stores`
InitAt(days, stores) ==
  /\ now \in days
  /\ storage \in stores
  /\ phase = "unmounted"
  /\ moodData = EmptyObj
  /\ todayMood = Null
  /\ showReset = FALSE
  /\ heatmapCells = EmptyGrid
  /\ monthLabels = <<>>
  /\ last = [op |-> "none", mood |-> "", ok |-> TRUE, ok2 |-> TRUE, today |-> FirstDay,
             before |-> EmptyObj, stored |-> NoItem]
  /\ clean = TRUE

InitWith(stores) == InitAt({FirstDay}, stores)

\* App's first render: both state initialisers call loadMoodData; reading a
\* property of null throws and the render fails
Init == InitWith(SeedStores)

\* the app started on a store holding about a year of consecutive days
InitLong == InitWith(LongStores)

Mount(r1, r2) ==
  /\ phase = "unmounted"
  /\ LET data == loadMoodData(storage, r1)
         data2 == loadMoodData(storage, r2)
     IN IF data.kind = "null" \/ data2.kind = "null"
        THEN /\ phase' = "crashed"
             /\ UNCHANGED <<moodData, todayMood, heatmapCells, monthLabels>>
        ELSE /\ phase' = "mounted"
             /\ moodData' = data
             /\ todayMood' = SyncTodayMood(data, now)
             /\ heatmapCells' = buildHeatmapCells(now)
             /\ monthLabels' = getMonthLabels(now)
  /\ last' = Step("mount", "", r1, r2)
  /\ clean' = r1
  /\ UNCHANGED <<now, storage, showReset>>

handleMoodSelect(m, writeOk) ==
  /\ phase = "mounted"
  /\ LET today == getDateKey(now)
         entry == MoodEntry(MOODS[m], now)
         newData == Spread(moodData, today, entry)
     IN /\ moodData' = newData
        /\ storage' = saveMoodData(storage, newData, writeOk)
        /\ todayMood' = SyncTodayMood(newData, now)
  /\ last' = Step("select", MOODS[m].label, writeOk, TRUE)
  /\ clean' = (clean /\ writeOk)
  /\ UNCHANGED <<now, phase, showReset, heatmapCells, monthLabels>>

OpenReset ==
  /\ phase = "mounted"
  /\ ~showReset
  /\ showReset' = TRUE
  /\ last' = Step("open", "", TRUE, TRUE)
  /\ UNCHANGED clean
  /\ UNCHANGED <<now, storage, phase, moodData, todayMood, heatmapCells, monthLabels>>

\* a dismissal that clears the history like a confirmed reset
CancelClears ==
  /\ phase = "mounted"
  /\ showReset
  /\ showReset' = FALSE
  /\ moodData' = EmptyObj
  /\ todayMood' = Null
  /\ storage' = NoItem
  /\ last' = Step("cancel", "", TRUE, TRUE)
  /\ UNCHANGED clean
  /\ UNCHANGED <<now, phase, heatmapCells, monthLabels>>

\* the Cancel button, or a click on the backdrop
CancelReset ==
  /\ phase = "mounted"
  /\ showReset
  /\ showReset' = FALSE
  /\ last' = Step("cancel", "", TRUE, TRUE)
  /\ UNCHANGED clean
  /\ UNCHANGED <<now, storage, phase, moodData, todayMood, heatmapCells, monthLabels>>

\* the Reset button of the dialog; removeOk = FALSE is removeItem throwing
handleReset(removeOk) ==
  /\ phase = "mounted"
  /\ showReset
  /\ IF removeOk
     THEN /\ storage' = NoItem
          /\ moodData' = EmptyObj
          /\ todayMood' = Null
          /\ showReset' = FALSE
     ELSE UNCHANGED <<storage, moodData, todayMood, showReset>>
  /\ last' = Step("reset", "", removeOk, TRUE)
  /\ clean' = (clean /\ removeOk)
  /\ UNCHANGED <<now, phase, heatmapCells, monthLabels>>

\* the page is reloaded: all React state is dropped
Reload ==
  /\ phase \in {"mounted", "crashed"}
  /\ phase' = "unmounted"
  /\ moodData' = EmptyObj
  /\ todayMood' = Null
  /\ showReset' = FALSE
  /\ heatmapCells' = EmptyGrid
  /\ monthLabels' = <<>>
  /\ last' = Step("reload", "", TRUE, TRUE)
  /\ clean' = TRUE
  /\ UNCHANGED <<now, storage>>

\* midnight passes
Midnight ==
  /\ now < FirstDay + MaxTicks
  /\ now' = now + 1
  /\ last' = Step("midnight", "", TRUE, TRUE)
  /\ UNCHANGED clean
  /\ UNCHANGED <<storage, phase, moodData, todayMood, showReset, heatmapCells, monthLabels>>

Next ==
  \/ \E r1 \in BOOLEAN, r2 \in BOOLEAN : Mount(r1, r2)
  \/ \E m \in LogMoods, writeOk \in BOOLEAN : handleMoodSelect(m, writeOk)
  \/ OpenReset
  \/ CancelReset
  \/ \E removeOk \in BOOLEAN : handleReset(removeOk)
  \/ Reload
  \/ Midnight

Spec == Init /\ [][Next]_vars

\* a year-long history: the app is opened, moods are logged, midnight passes
NextLong ==
  \/ Mount(TRUE, TRUE)
  \/ \E m \in LogMoods, writeOk \in BOOLEAN : handleMoodSelect(m, writeOk)
  \/ Midnight

SpecLong == InitLong /\ [][NextLong]_vars

\* the app started on stores seeded for the weekly trend, and for the 30-day
\* frequency
InitTrend == InitWith(TrendStores)

SpecTrend == InitTrend /\ [][NextLong]_vars

\* the app opened on any of GridSpan + 1 consecutive days
GridDays == FirstDay..(FirstDay + GridSpan)

InitGrid == InitAt(GridDays, {NoItem, Stringify(SeedObject(Back(0, 1), {}))})

SpecGrid == InitGrid /\ [][Next]_vars

InitBest == InitWith(BestStores)

SpecBest == InitBest /\ [][NextLong]_vars

InitWeeks == InitWith(WeekStores)

SpecWeeks == InitWeeks /\ [][NextLong]_vars

InitBars == InitWith(BarStores)

SpecBars == InitBars /\ [][NextLong]_vars

InitFrequency == InitWith(FrequencyStores)

SpecFrequency == InitFrequency /\ [][NextLong]_vars

(***************************************************************************)
(* Properties.                                                             *)
(***************************************************************************)
Min(a, b) == IF a < b THEN a ELSE b

\* the day `i` days before `today` has a record
Present(data, today, i) == Has(data, getDateKey(DaysAgo(today, i)))

\* the number of consecutive days with a record, counted back from yesterday
PriorRun(data, today) ==
  LET far == today - (FirstDay - Horizon)
      gaps == { j \in 1..far : ~Present(data, today, j) }
  IN IF gaps = {} THEN far ELSE (CHOOSE j \in gaps : \A h \in gaps : j <= h) - 1

\* the key of the day on which the last step was taken
LastKey == getDateKey(last.today)

\* the last step logged a mood on a day that had no record / had one already
LoggedNew == last.op = "select" /\ ~Has(last.before, LastKey)

LoggedAgain == last.op = "select" /\ Has(last.before, LastKey)

\* C1: the best streak is never smaller than the current streak computed for
\* the same day
C1_BestAtLeastCurrent ==
  phase = "mounted" => computeBestStreak(moodData, now) >= computeCurrentStreak(moodData, now)

\* a current streak of two days or more that the scan of the sorted keys does
\* not see, a malformed key sorting between its days
C1_Witness ==
  /\ phase = "mounted"
  /\ computeCurrentStreak(moodData, now) >= 2
  /\ Junk(getDateKey(DaysAgo(now, 1))) \in ObjectKeys(moodData)
  /\ computeBestStreak(moodData, now) = computeCurrentStreak(moodData, now)

\* C2: logging a mood on a day without a record raises the current streak by
\* exactly one, maps today's key to the chosen mood and leaves every other key
\* and its record as they were
C2_LogAddsToday ==
  LoggedNew =>
    /\ computeCurrentStreak(moodData, last.today) = computeCurrentStreak(last.before, last.today) + 1
    /\ Has(moodData, LastKey)
    /\ moodData.props[LastKey].label = last.mood
    /\ ObjectKeys(moodData) = ObjectKeys(last.before) \cup {LastKey}
    /\ \A k \in ObjectKeys(last.before) : moodData.props[k] = last.before.props[k]

\* a mood logged on top of at least 364 consecutive prior days
C2_Witness ==
  /\ LoggedNew
  /\ computeCurrentStreak(last.before, last.today) >= StreakCap - 1
  /\ PriorRun(last.before, last.today) >= StreakCap

\* the number of date-keys the persisted store holds
StoredCount(store) == Cardinality(ObjectKeys(loadMoodData(store, TRUE)))

\* C3 as stated: logging again on the same day replaces the record: the
\* history in memory and the persisted store keep their number of keys, the
\* current streak is unchanged, the day's one record carries the last label
C3_Original ==
  LoggedAgain =>
    /\ Cardinality(ObjectKeys(moodData)) = Cardinality(ObjectKeys(last.before))
    /\ StoredCount(storage) = StoredCount(last.stored)
    /\ computeCurrentStreak(moodData, last.today) = computeCurrentStreak(last.before, last.today)
    /\ moodData.props[LastKey].label = last.mood

\* C3 amended: logging again on the same day replaces the record in memory
\* (same keys, same streak, the last label); a successful write leaves the
\* store holding exactly the history in memory, with one member for today, so
\* the store's number of keys is unchanged whenever the store agreed with
\* memory before; a failed write leaves the store as it was
C3_RelogReplaces ==
  LoggedAgain =>
    /\ ObjectKeys(moodData) = ObjectKeys(last.before)
    /\ \A k \in ObjectKeys(last.before) \ {LastKey} : moodData.props[k] = last.before.props[k]
    /\ computeCurrentStreak(moodData, last.today) = computeCurrentStreak(last.before, last.today)
    /\ moodData.props[LastKey].label = last.mood
    /\ last.ok =>
         /\ loadMoodData(storage, TRUE) = moodData
         /\ Cardinality({ i \in DOMAIN storage.members : storage.members[i][1] = LastKey }) = 1
         /\ loadMoodData(last.stored, TRUE) = last.before => StoredCount(storage) = StoredCount(last.stored)
    /\ ~last.ok => storage = last.stored

\* a record of today replaced by another mood and written to the store
C3_Witness ==
  /\ LoggedAgain
  /\ last.ok
  /\ last.before.props[LastKey].label # last.mood
  /\ Cardinality(ObjectKeys(moodData)) >= 2

\* C4 as stated, its second consequence: with today absent, the days 1..k ago
\* present and day k+1 absent, the current streak is k
C4_Original ==
  (phase = "mounted" /\ ~Present(moodData, now, 0)) =>
    computeCurrentStreak(moodData, now) = PriorRun(moodData, now)

\* C4 amended: the current streak counts the consecutive days with a record
\* back from today when today has one, otherwise from yesterday, up to the
\* first day without one and never past offset 364.  So: with today absent it
\* is 0 exactly when yesterday is absent; with today absent and the days 1..k
\* ago present and day k+1 absent it is k capped at 364, and one more after
\* today is logged; with today present and yesterday absent it is 1; it never
\* exceeds 365
C4_CurrentStreak ==
  phase = "mounted" =>
    LET start == IF Present(moodData, now, 0) THEN 0 ELSE 1
        k == computeCurrentStreak(moodData, now)
    IN /\ \A i \in start..(start + k - 1) : Present(moodData, now, i)
       /\ start + k <= StreakCap
       /\ start + k = StreakCap \/ ~Present(moodData, now, start + k)
       /\ k <= StreakCap
       /\ ~Present(moodData, now, 0) => (k = 0 <=> ~Present(moodData, now, 1))
       /\ ~Present(moodData, now, 0) => k = Min(PriorRun(moodData, now), StreakCap - 1)
       /\ (Present(moodData, now, 0) /\ ~Present(moodData, now, 1)) => k = 1
       /\ (LoggedNew /\ last.today = now) =>
            k = Min(PriorRun(last.before, now), StreakCap - 1) + 1

\* today absent and more consecutive prior days than the scan reaches
C4_Witness ==
  /\ phase = "mounted"
  /\ ~Present(moodData, now, 0)
  /\ PriorRun(moodData, now) >= StreakCap
  /\ computeCurrentStreak(moodData, now) = StreakCap - 1

\* no cell of the grid has a record
NoCellHasRecord ==
  \A rc \in DOMAIN heatmapCells :
    heatmapCells[rc] = NoCell \/ ~Has(moodData, heatmapCells[rc].dateKey)

\* C5: after a confirmed reset the history in memory is empty and the store
\* holds no item, so both streaks are 0, the frequency list is empty, the
\* trend is the no-data prompt and no grid cell has a record
C5_ResetClears ==
  last.op = "reset" =>
    /\ moodData = EmptyObj
    /\ storage = NoItem
    /\ computeCurrentStreak(moodData, now) = 0
    /\ computeBestStreak(moodData, now) = 0
    /\ getFrequencyIn30Days(moodData, now) = <<>>
    /\ Trend(moodData, now) = "no-data"
    /\ NoCellHasRecord

C7_LoadFallsBack ==
  (last.op = "mount" /\ (~last.ok \/ last.stored.kind # "jsonObject")) =>
    /\ phase = "mounted"
    /\ moodData = EmptyObj

\* C8: when the write throws, logging still leaves today's new record in
\* memory, and resetting still empties the history in memory
C8_FailedWriteCompletes ==
  /\ (last.op = "select" /\ ~last.ok) =>
       /\ phase = "mounted"
       /\ Has(moodData, LastKey)
       /\ moodData.props[LastKey].label = last.mood
  /\ (last.op = "reset" /\ ~last.ok) =>
       /\ phase = "mounted"
       /\ moodData = EmptyObj

\* the sum and the number of the scores of a week, 5 for a label not in the catalog
WeekSum(data, today, start) == SumScores(getWeekEntries(data, today, start))

WeekSize(data, today, start) == Len(getWeekEntries(data, today, start))

\* the verdict of the table, the averages compared as exact fractions:
\* sc / nc > sp / np + 1/2  iff  2 * sc * np > 2 * sp * nc + nc * np
TableVerdict(sc, nc, sp, np) ==
  IF nc = 0 /\ np = 0 THEN "no-data"
  ELSE IF nc = 0 THEN "nothing-this-week"
  ELSE IF np = 0 THEN "insufficient-history"
  ELSE IF 2 * sc * np > 2 * sp * nc + nc * np THEN "upward"
  ELSE IF 2 * sc * np < 2 * sp * nc - nc * np THEN "downward"
  ELSE "steady"

\* C9: the trend is the verdict of the table, in its priority order, on the
\* means of the two weeks' scores (5 for a label not in the catalog); a
\* difference of exactly 0.5 is steady
C9_TrendTable ==
  phase = "mounted" =>
    Trend(moodData, now) =
      TableVerdict(WeekSum(moodData, now, 0), WeekSize(moodData, now, 0),
                   WeekSum(moodData, now, 7), WeekSize(moodData, now, 7))

\* position of a catalog label in MOODS
CatalogIndex(label) == CHOOSE i \in 1..Len(MOODS) : MOODS[i].label = label

\* the number of records with this label among the days from 29 days ago to today
WindowCount(data, today, label) ==
  Cardinality({ k \in ObjectKeys(data) :
                  /\ k[4] = 0
                  /\ DayNumber(k[1], k[2], k[3]) \in (today - 29)..today
                  /\ data.props[k].label = label })

\* C10: the frequency list has exactly one entry for each catalog mood with a
\* record among the 30 days ending today, with the number of those records; no
\* entry for a mood without one or for a label outside the catalog; counts
\* descending, equal counts in catalog order
C10_Frequency ==
  phase = "mounted" =>
    LET f == getFrequencyIn30Days(moodData, now)
    IN /\ \A i \in DOMAIN f :
            /\ f[i].mood.label \in CatalogLabels
            /\ f[i].mood = MOODS[CatalogIndex(f[i].mood.label)]
            /\ f[i].count = WindowCount(moodData, now, f[i].mood.label)
            /\ f[i].count > 0
       /\ \A l \in CatalogLabels :
            Cardinality({ i \in DOMAIN f : f[i].mood.label = l }) =
              (IF WindowCount(moodData, now, l) > 0 THEN 1 ELSE 0)
       /\ \A i, j \in DOMAIN f :
            i < j => \/ f[i].count > f[j].count
                     \/ /\ f[i].count = f[j].count
                        /\ CatalogIndex(f[i].mood.label) < CatalogIndex(f[j].mood.label)

\* two moods tied, the later in the catalog met first; a record 30 days ago
\* and a record with a label outside the catalog, neither counted
C10_Witness ==
  /\ phase = "mounted"
  /\ LET f == getFrequencyIn30Days(moodData, now)
     IN /\ Len(f) >= 2
        /\ f[1].count = f[2].count
        /\ f[1].mood.label = "Joyful"
        /\ f[2].mood.label = "Tired"
  /\ Has(moodData, getDateKey(DaysAgo(now, FrequencyDays)))
  /\ \E k \in ObjectKeys(moodData) : moodData.props[k].label \notin CatalogLabels

\* the whole percents of a width
WholePart(w) == w[1] * 128 + w[2] * 64 + w[3] * 32 + w[4] * 16 + w[5] * 8 + w[6] * 4 + w[7] * 2 + w[8]

\* the width has no fraction
IsWhole(w) == \A k \in (WideInt + 1)..WideLen : w[k] = 0

FullWidth == WideOf(100)

\* C11: with maxCount the largest count of the list (1 for the empty list, so
\* that nothing is divided by zero), each bar's width is
\* max(count / maxCount * 100, 10) percent: exactly 10 when the quotient is at
\* most a tenth, else within one percent of the exact quotient and equal to
\* it when that is a whole number (10 and 3 give 100 and 30); the first bar is
\* 100, every width lies in [10, 100] and the widths do not increase down the
\* list
C11_BarWidths ==
  phase = "mounted" =>
    LET f == getFrequencyIn30Days(moodData, now)
        m == maxFreq(f)
        w == BarWidths(f)
    IN /\ m >= 1
       /\ f = <<>> => m = 1 /\ w = <<>>
       /\ f # <<>> =>
            /\ \E i \in DOMAIN f : f[i].count = m
            /\ \A i \in DOMAIN f : f[i].count <= m
            /\ w[1] = FullWidth
       /\ \A i \in DOMAIN f :
            /\ ~WideGreater(MinBarWidth, w[i])
            /\ ~WideGreater(w[i], FullWidth)
            /\ 10 * f[i].count <= m => w[i] = MinBarWidth
            /\ 10 * f[i].count > m =>
                 /\ WholePart(w[i]) * m <= 100 * f[i].count
                 /\ 100 * f[i].count <= (WholePart(w[i]) + 1) * m
            /\ (10 * f[i].count > m /\ (100 * f[i].count) % m = 0) =>
                 /\ IsWhole(w[i])
                 /\ WholePart(w[i]) * m = 100 * f[i].count
       /\ \A i, j \in DOMAIN f : i < j => ~WideGreater(w[j], w[i])

\* counts 10 and 3 and a mood logged once today: bars of 100, 30 and 10 percent
C11_Witness ==
  /\ phase = "mounted"
  /\ LET f == getFrequencyIn30Days(moodData, now)
         w == BarWidths(f)
     IN /\ Len(f) = 3
        /\ f[1].count = 10 /\ f[2].count = 3 /\ f[3].count = 1
        /\ WholePart(w[1]) = 100 /\ WholePart(w[2]) = 30 /\ IsWhole(w[2])
        /\ w[3] = MinBarWidth

\* the first render has just built the grid and the month labels, on last.today
GridBuilt == phase = "mounted" /\ last.op = "mount"

\* the position of the day i days before a day whose day-of-week is dow
PosOf(dow, i) == dow + 77 - i

Offsets == 0..(DAYS_IN_HEATMAP - 1)

\* C12: whatever today's day-of-week, every offset in [0, 84) with pos >= 0
\* has its position inside the 7 x 12 grid, two such offsets have different
\* positions and each one's cell holds its own day (none is overwritten);
\* the grid is a function of today, and today's cell is at row todayDow,
\* column 11
C12_GridPositions ==
  GridBuilt =>
    LET today == last.today
        dow == getDay(today)
        placed == { i \in Offsets : PosOf(dow, i) >= 0 }
    IN /\ DOMAIN heatmapCells = (0..6) \X (0..11)
       /\ \A i \in placed :
            /\ PosOf(dow, i) \div 7 \in 0..11
            /\ PosOf(dow, i) % 7 \in 0..6
            /\ heatmapCells[<<PosOf(dow, i) % 7, PosOf(dow, i) \div 7>>] =
                 [dateKey |-> getDateKey(today - i), col |-> PosOf(dow, i) \div 7,
                  row |-> PosOf(dow, i) % 7]
       /\ \A i, j \in placed :
            i # j => <<PosOf(dow, i) % 7, PosOf(dow, i) \div 7>> # <<PosOf(dow, j) % 7, PosOf(dow, j) \div 7>>
       /\ heatmapCells[<<dow, 11>>].dateKey = getDateKey(today)
       /\ heatmapCells = buildHeatmapCells(today)

\* a grid built on a Sunday: the six oldest offsets have pos < 0, today is the
\* top cell of the last column
C12_Witness ==
  /\ GridBuilt
  /\ getDay(last.today) = 0
  /\ PosOf(0, DAYS_IN_HEATMAP - 1) < 0
  /\ heatmapCells[<<0, 11>>].dateKey = getDateKey(last.today)
  /\ heatmapCells[<<0, 0>>].dateKey = getDateKey(last.today - 77)

\* the positions of the grid that hold a cell
Populated(grid) == { rc \in DOMAIN grid : grid[rc] # NoCell }

\* C13: whatever today's day-of-week, each of the 84 days from 83 days ago to
\* today has a cell of the grid, so the grid holds exactly 84 cells
C13_AllDaysPlaced ==
  GridBuilt =>
    /\ \A i \in Offsets :
         \E rc \in DOMAIN heatmapCells : heatmapCells[rc].dateKey = getDateKey(last.today - i)
    /\ Cardinality(Populated(heatmapCells)) = DAYS_IN_HEATMAP

\* the last step was followed by a render pass (a step of the clock alone
\* renders nothing)
Rendered == phase = "mounted" /\ last.op # "midnight"

\* C14: in every render pass the grid and the month labels are those of the
\* day the other views take as today (the day computeCurrentStreak,
\* getWeekEntries and getFrequencyIn30Days read, whose key is todayKey), and
\* the highlighted cell is that day's, even when midnight has passed since the
\* app was started
C14_SameToday ==
  Rendered =>
    /\ heatmapCells = buildHeatmapCells(now)
    /\ monthLabels = getMonthLabels(now)
    /\ \E rc \in DOMAIN heatmapCells : heatmapCells[rc].dateKey = getDateKey(now)

\* what the views are derived from, the clock apart
Shown == <<moodData, storage, todayMood, heatmapCells, monthLabels>>

\* C15: the step that opens the reset dialog and the step that dismisses it
\* (Cancel or backdrop) change neither the history in memory nor the store, so
\* the views are as before; a step that empties the store or takes a key from
\* the history of the running app is a confirmed reset
C15_CancelKeepsData ==
  [][ /\ (~showReset /\ showReset') => UNCHANGED Shown
      /\ (showReset /\ ~showReset' /\ last'.op = "cancel") => UNCHANGED Shown
      /\ (storage # NoItem /\ storage' = NoItem) => last'.op = "reset"
      /\ (phase = "mounted" /\ phase' = "mounted"
            /\ ~(ObjectKeys(moodData) \subseteq ObjectKeys(moodData'))) => last'.op = "reset"
    ]_vars

\* the dialog dismissed over a history and a store that hold a record
C15_Witness ==
  /\ last.op = "cancel"
  /\ ~showReset
  /\ ObjectKeys(moodData) # {}
  /\ moodData = last.before
  /\ storage # NoItem
  /\ storage = last.stored

\* every key of the history is the key of a calendar day
WellFormed(data) == \A k \in ObjectKeys(data) : k[4] = 0

\* the day n has a record
OnDay(data, n) == n \in DayRange /\ Has(data, getDateKey(n))

\* the first and the last days of the runs of consecutive days of the history
RunStarts(data) == { n \in DayRange : OnDay(data, n) /\ ~OnDay(data, n - 1) }

RunEnds(data) == { n \in DayRange : OnDay(data, n) /\ ~OnDay(data, n + 1) }

\* the length of the run that starts on s
RunLength(ends, s) == (CHOOSE e \in ends : e >= s /\ \A x \in ends : x >= s => e <= x) - s + 1

LongestOf(starts, ends) ==
  IF starts = {} THEN 0
  ELSE CHOOSE len \in { RunLength(ends, s) : s \in starts } :
         \A s \in starts : RunLength(ends, s) <= len

\* the length of the longest run of consecutive days of the history
LongestRun(data) == LongestOf(RunStarts(data), RunEnds(data))

\* C16: for a history of well-formed date-keys the best streak is the length
\* of the longest run of consecutive calendar days present (0 exactly for the
\* empty history), with no cap, and the scan of the sorted keys alone already
\* gives it: the comparison with the current streak changes nothing
C16_BestIsLongestRun ==
  (phase = "mounted" /\ WellFormed(moodData)) =>
    /\ computeBestStreak(moodData, now) = LongestRun(moodData)
    /\ BestOfScan(moodData, now) = LongestRun(moodData)
    /\ LongestRun(moodData) = 0 <=> ObjectKeys(moodData) = {}

\* a run of more than 365 days, then a day without a record, then today: the
\* best streak exceeds the cap and the current streak is 1
C16_Witness ==
  /\ phase = "mounted"
  /\ WellFormed(moodData)
  /\ computeBestStreak(moodData, now) > StreakCap
  /\ computeCurrentStreak(moodData, now) = 1
  /\ ~Present(moodData, now, 1)

\* the positions of the grid that some offset in [0, 84) reaches
Reached(dow) == { <<PosOf(dow, i) % 7, PosOf(dow, i) \div 7>> : i \in { j \in Offsets : PosOf(dow, j) >= 0 } }

\* the empty positions are those no offset reaches
EmptyAreUnreached == DOMAIN heatmapCells \ Populated(heatmapCells) = DOMAIN heatmapCells \ Reached(getDay(last.today))

\* the columns without an empty position
FullColumns == { col \in 0..(GridCols - 1) : \A row \in 0..(GridRows - 1) : heatmapCells[<<row, col>>] # NoCell }

\* C17 as stated: the empty positions are those no offset reaches, they lie in
\* column 0, and every later column is full
C17_Original ==
  GridBuilt =>
    /\ EmptyAreUnreached
    /\ \A rc \in DOMAIN heatmapCells \ Populated(heatmapCells) : rc[2] = 0
    /\ 1..(GridCols - 1) \subseteq FullColumns

\* C17: the empty positions are those no offset reaches; they are the rows
\* after today's in the last column (the days of this week still to come),
\* and every earlier column, column 0 included, is full
C17_EmptyCells ==
  GridBuilt =>
    /\ EmptyAreUnreached
    /\ DOMAIN heatmapCells \ Populated(heatmapCells) =
         { <<row, GridCols - 1>> : row \in (getDay(last.today) + 1)..(GridRows - 1) }
    /\ 0..(GridCols - 2) \subseteq FullColumns

\* a grid built on a Sunday: six empty positions below today, column 0 full
C17_Witness ==
  /\ GridBuilt
  /\ getDay(last.today) = 0
  /\ Cardinality(DOMAIN heatmapCells \ Populated(heatmapCells)) = 6
  /\ heatmapCells[<<1, 11>>] = NoCell
  /\ 0 \in FullColumns

\* the months (1..12) of the days shown in a column, and of its top cell
MonthsIn(col) ==
  { heatmapCells[<<row, col>>].dateKey[2] :
      row \in { r \in 0..(GridRows - 1) : heatmapCells[<<r, col>>] # NoCell } }

TopMonth(col) == heatmapCells[<<0, col>>].dateKey[2]

\* the first column that shows a day of the month
FirstColumnWith(month) ==
  CHOOSE col \in 0..(GridCols - 1) :
    month \in MonthsIn(col) /\ \A c \in 0..(col - 1) : month \notin MonthsIn(c)

\* the month (1..12) a label names
MonthOf(label) == CHOOSE mo \in 1..12 : MonthNames[mo] = label

\* no month is labelled twice, and the columns of the labels increase
LabelsInOrder ==
  \A i, j \in DOMAIN monthLabels :
    i < j => monthLabels[i].col < monthLabels[j].col /\ monthLabels[i].label # monthLabels[j].label

\* C18 as stated: at most one label per month of the window, columns strictly
\* increasing, each label over the first column that shows a day of its month
C18_Original ==
  GridBuilt =>
    /\ LabelsInOrder
    /\ \A i \in DOMAIN monthLabels :
         /\ \E col \in 0..(GridCols - 1) : MonthOf(monthLabels[i].label) \in MonthsIn(col)
         /\ monthLabels[i].col = FirstColumnWith(MonthOf(monthLabels[i].label))

\* C18: at most one label per month, columns strictly increasing; a column is
\* labelled exactly when its top (Sunday) cell lies in another month than the
\* top cell of the column before it (column 0 always is), with that month's
\* name, so a label stands over the first column that starts in its month:
\* the column in which the month's days first appear, or the one after it
\* when the month begins in mid-week
C18_MonthLabels ==
  GridBuilt =>
    /\ LabelsInOrder
    /\ \A col \in 0..(GridCols - 1) :
         (\E i \in DOMAIN monthLabels : monthLabels[i].col = col)
           <=> (col = 0 \/ TopMonth(col) # TopMonth(col - 1))
    /\ \A i \in DOMAIN monthLabels :
         /\ monthLabels[i].label = MonthNames[TopMonth(monthLabels[i].col)]
         /\ FirstColumnWith(TopMonth(monthLabels[i].col)) \in
              {monthLabels[i].col - 1, monthLabels[i].col}

\* a label one column after the first days of its month, and a month shown in
\* the grid that has no label
C18_Witness ==
  /\ GridBuilt
  /\ \E i \in DOMAIN monthLabels :
       FirstColumnWith(MonthOf(monthLabels[i].label)) = monthLabels[i].col - 1
  /\ \E mo \in MonthsIn(GridCols - 1) :
       \A i \in DOMAIN monthLabels : monthLabels[i].label # MonthNames[mo]

\* the number of entries with the label, and the place of the first of them
Occurrences(entries, label) == Cardinality({ i \in DOMAIN entries : entries[i].label = label })

FirstAt(entries, label) ==
  CHOOSE i \in DOMAIN entries :
    entries[i].label = label /\ \A j \in 1..(i - 1) : entries[j].label # label

\* none for no entries, else the label with the most occurrences and, among
\* those with as many, the one met first
TopLabelIs(entries, top) ==
  IF entries = <<>> THEN top.none
  ELSE /\ ~top.none
       /\ \E i \in DOMAIN entries : entries[i].label = top.label
       /\ \A i \in DOMAIN entries :
            \/ Occurrences(entries, entries[i].label) < Occurrences(entries, top.label)
            \/ /\ Occurrences(entries, entries[i].label) = Occurrences(entries, top.label)
               /\ FirstAt(entries, top.label) <= FirstAt(entries, entries[i].label)

\* the most recent day of a week window with this label, as an offset
MostRecentWith(data, today, start, label) ==
  CHOOSE i \in start..(start + WeekDays - 1) :
    /\ Present(data, today, i) /\ data.props[getDateKey(DaysAgo(today, i))].label = label
    /\ \A j \in start..(i - 1) :
         ~(Present(data, today, j) /\ data.props[getDateKey(DaysAgo(today, j))].label = label)

\* C19: getMostFrequentLabel returns none for no entries and otherwise the
\* label that occurs most often, among labels occurring equally often the
\* one that occurs first; for a week window that is the one logged on the
\* most recent day
C19_MostFrequent ==
  phase = "mounted" =>
    \A start \in {0, WeekDays} :
      LET entries == getWeekEntries(moodData, now, start)
          top == getMostFrequentLabel(entries)
      IN /\ TopLabelIs(entries, top)
         /\ \A i \in DOMAIN entries :
              Occurrences(entries, entries[i].label) = Occurrences(entries, top.label) =>
                MostRecentWith(moodData, now, start, top.label)
                  <= MostRecentWith(moodData, now, start, entries[i].label)

\* the day a cell shows, read back from its key
DayOfCell(rc) ==
  DayNumber(heatmapCells[rc].dateKey[1], heatmapCells[rc].dateKey[2], heatmapCells[rc].dateKey[3])

\* the day of the week of a day, 0 = Sunday (1970-01-04 was a Sunday)
Weekday(n) == CHOOSE w \in 0..6 : (n - w) % 7 = 3

\* C20: the row of every populated cell is the day of the week (0 = Sunday)
\* of its date; down a column the date advances by one day per row, the same
\* row of the next column is 7 days later, and every column starts on a
\* Sunday
C20_CalendarOrder ==
  GridBuilt =>
    /\ \A rc \in Populated(heatmapCells) :
         /\ rc[1] = Weekday(DayOfCell(rc))
         /\ heatmapCells[rc].row = rc[1]
         /\ heatmapCells[rc].col = rc[2]
         /\ <<rc[1] + 1, rc[2]>> \in Populated(heatmapCells) =>
              DayOfCell(<<rc[1] + 1, rc[2]>>) = DayOfCell(rc) + 1
         /\ <<rc[1], rc[2] + 1>> \in Populated(heatmapCells) =>
              DayOfCell(<<rc[1], rc[2] + 1>>) = DayOfCell(rc) + 7
    /\ \A col \in 0..(GridCols - 1) :
         /\ <<0, col>> \in Populated(heatmapCells)
         /\ Weekday(DayOfCell(<<0, col>>)) = 0

\* a grid built on a Wednesday: today in row 3 of the last column, the Sunday
\* eleven weeks before this week's at the top of column 0
C20_Witness ==
  /\ GridBuilt
  /\ Weekday(last.today) = 3
  /\ heatmapCells[<<3, 11>>].dateKey = getDateKey(last.today)
  /\ DayOfCell(<<0, 0>>) = last.today - 3 - 77
  /\ DayOfCell(<<6, 0>>) = DayOfCell(<<0, 1>>) - 1

\* the offsets from start to start + 6 whose day has a record
PresentIn(data, today, start) == { i \in start..(start + 6) : Present(data, today, i) }

\* the k-th smallest element of a set of numbers
Nth(set, k) == CHOOSE x \in set : Cardinality({ y \in set : y < x }) = k - 1

\* the history without the records 14 or more days old
LastTwoWeeks(data, today) ==
  Obj([k \in { key \in ObjectKeys(data) : \E i \in 0..13 : key = getDateKey(today - i) } |->
         data.props[k]])

\* C21: getWeekEntries(h, s) holds exactly the records of the days at offsets
\* s..s+6 that have one, each once: today and the 6 days before it for s = 0,
\* the offsets 7..13 for s = 7, no day in both; a record 14 or more days old
\* changes neither the trend nor the most frequent label of either week
C21_WeekWindows ==
  phase = "mounted" =>
    /\ \A start \in {0, 7} :
         LET entries == getWeekEntries(moodData, now, start)
             days == PresentIn(moodData, now, start)
         IN /\ Len(entries) = Cardinality(days)
            /\ \A k \in DOMAIN entries :
                 entries[k] = moodData.props[getDateKey(now - Nth(days, k))]
    /\ PresentIn(moodData, now, 0) \cap PresentIn(moodData, now, 7) = {}
    /\ PresentIn(moodData, now, 0) \subseteq 0..6
    /\ PresentIn(moodData, now, 7) \subseteq 7..13
    /\ Trend(moodData, now) = Trend(LastTwoWeeks(moodData, now), now)
    /\ \A start \in {0, 7} :
         getMostFrequentLabel(getWeekEntries(moodData, now, start)) =
           getMostFrequentLabel(getWeekEntries(LastTwoWeeks(moodData, now), now, start))

\* records on the first and the last day of both windows and 14 days ago: two
\* entries in each week
C21_Witness ==
  /\ phase = "mounted"
  /\ PresentIn(moodData, now, 0) = {0, 6}
  /\ PresentIn(moodData, now, 7) = {7, 13}
  /\ Present(moodData, now, 14)
  /\ Len(getWeekEntries(moodData, now, 0)) = 2
  /\ Len(getWeekEntries(moodData, now, 7)) = 2
  /\ getWeekEntries(moodData, now, 0)[1] = moodData.props[getDateKey(now)]

====
